---- MODULE Spec2Model ----
(***************************************************************************)
(* element_ptr!: the access-chain parser (AccessList::parse), the lowering *)
(* of a chain into pointer operations (AccessListToTokensCtx::to_tokens)   *)
(* and the typestate pointer (helper::Pointer) the lowered code runs on.   *)
(*                                                                         *)
(* One behaviour is one macro invocation `element_ptr!(base => chain)`.    *)
(* Parsing, lowering and the evaluation of the lowered statements are all  *)
(* left-to-right folds over the chain, so the model advances the three in  *)
(* lockstep, one access per step: `chain` is the input consumed so far,    *)
(* `tokens` the statements emitted for it and `ptr` the value the rolling  *)
(* binding `ptr` holds once those statements have run.  A group            *)
(* `( inner )` appears in `chain` as an Open node, the inner nodes and a   *)
(* Close node; `depth` is the nesting of the recursive parse / to_tokens.  *)
(***************************************************************************)
EXTENDS Integers, Sequences, FiniteSets, TLC

\* Bounds of the explored inputs.
MaxNodes == 3   \* access nodes in one invocation (a group counts once)
MaxDepth == 2   \* nesting of groups
MaxCount == 2   \* offset counts are 1..MaxCount
MaxIndex == 1   \* index and tuple-index literals are 1..MaxIndex

(***************************************************************************)
(* The caller's types and memory.  One allocation of two records           *)
(*   struct Rec { d: *mut Rec, items: [Pair; 2] }    Pair = (u8, u8)       *)
(* at addresses 8..23; pointers are 4 bytes, little endian.  The first     *)
(* record's `items` is not initialized.  "Slice" is the unsized [Pair].    *)
(***************************************************************************)
Types == {"Rec", "PtrMutRec", "Arr", "Slice", "Pair", "u8"}

Sized(t) == t # "Slice"

SizeOf(t) ==
    CASE t = "Rec" -> 8
      [] t = "PtrMutRec" -> 4
      [] t = "Arr" -> 4
      [] t = "Pair" -> 2
      [] t = "u8" -> 1
      [] OTHER -> 0

AlignOf(t) == IF t \in {"Rec", "PtrMutRec"} THEN 4 ELSE 1

HasField(t, f) == t = "Rec" /\ f \in {"d", "items"}
FieldTy(t, f) == IF f = "d" THEN "PtrMutRec" ELSE "Arr"
FieldOff(t, f) == IF f = "d" THEN 0 ELSE 4

HasTuple(t, i) == t = "Pair" /\ i \in {0, 1}
TupleTy(t, i) == "u8"
TupleOff(t, i) == i

\* impl IsPtr for *mut T / *const T / NonNull<T>: the pointer types among
\* the pointee types, with their marker and pointee.
IsPtrTy(t) == t = "PtrMutRec"
PtrM(t) == "Mut"
PtrT(t) == "Rec"

Memory ==
    [a \in 8..23 |->
        CASE a = 8 -> 16      \* rec0.d = &rec1
          [] a = 16 -> 8      \* rec1.d = &rec0
          [] a \in 20..23 -> a + 21   \* rec1.items
          [] OTHER -> 0]

Allocated == DOMAIN Memory
Initialized == Allocated \ (12..15)

\* the addresses a pointer into the allocation may take (one past the end
\* included), as pointer::offset requires.
InBounds(a) == a \in Allocated \/ a - 1 \in Allocated

Mutabilities == {"Const", "Mut", "NonNull"}

\* the rolling binding `ptr`: a typestate Pointer<M, T> ("wrapper"), a raw
\* pointer M::Raw<T> ("raw"), a value that is no pointer ("value"), or
\* nothing at all when the expansion does not run ("undef").
Held(kind, m, ty, addr, val) ==
    [kind |-> kind, m |-> m, ty |-> ty, addr |-> addr, val |-> val]

Undef == Held("undef", "none", "none", 0, <<>>)


(***************************************************************************)
(* helper: the typestate pointer and its operations (src/src/lib.rs).      *)
(***************************************************************************)
new_pointer(p) == Held("wrapper", p.m, p.ty, p.addr, <<>>)

\* faulty variant: the raw pointer is always handed back as *const T
into_inner_const(w) == Held("raw", "Const", w.ty, w.addr, <<>>)

into_inner(w) == Held("raw", w.m, w.ty, w.addr, <<>>)

into_const(w) == Held("raw", "Const", w.ty, w.addr, <<>>)

\* faulty variant: the marker is taken from the *const E argument
copy_addr_marker(w, e) == Held("wrapper", e.m, e.ty, e.addr, <<>>)

copy_addr(w, e) == Held("wrapper", w.m, e.ty, e.addr, <<>>)

\* faulty variant: the cast goes through *const U and loses the marker
cast_const(w, u) == Held("wrapper", "Const", u, w.addr, <<>>)

cast(w, u) == Held("wrapper", w.m, u, w.addr, <<>>)

add(w, count) == [w EXCEPT !.addr = @ + count * SizeOf(w.ty)]

\* faulty variant: the count is taken in bytes
sub_bytes(w, count) == [w EXCEPT !.addr = @ - count]

sub(w, count) == [w EXCEPT !.addr = @ - count * SizeOf(w.ty)]

\* faulty variant: the count is taken in elements
byte_add_elements(w, count) == [w EXCEPT !.addr = @ + count * SizeOf(w.ty)]

byte_add(w, count) == [w EXCEPT !.addr = @ + count]

byte_sub(w, count) == [w EXCEPT !.addr = @ - count]

\* little-endian pointer stored at a
LoadAddr(a) ==
    Memory[a] + 256 * Memory[a + 1] + 65536 * Memory[a + 2]
              + 16777216 * Memory[a + 3]

\* pointer::read of a T at address a: a raw pointer when T is a pointer
\* type, the bytes of the value otherwise.
Load(t, a) ==
    IF IsPtrTy(t)
    THEN Held("raw", PtrM(t), PtrT(t), LoadAddr(a), <<>>)
    ELSE Held("value", "none", t, 0, [i \in 1..SizeOf(t) |-> Memory[a + i - 1]])

\* faulty variant: the pointer itself is returned instead of what it points to
read_self(w) == into_inner(w)

read(w) == Load(w.ty, w.addr)

\* CanIndex: [T; L] and [T], with the element type E.
CanIndex(t) == t \in {"Arr", "Slice"}
ElemOf(t) == "Pair"

index(w, i) ==
    LET base == [into_const(w) EXCEPT !.ty = ElemOf(w.ty)]
        p == base.addr + i * SizeOf(base.ty)
    IN  Held("wrapper", w.m, base.ty, p, <<>>)

\* ::core::ptr::addr_of!( (*c).field ) and addr_of!( (*c).index )
addr_of_field(c, f) ==
    Held("raw", "Const", FieldTy(c.ty, f), c.addr + FieldOff(c.ty, f), <<>>)

addr_of_tuple(c, i) ==
    Held("raw", "Const", TupleTy(c.ty, i), c.addr + TupleOff(c.ty, i), <<>>)

(***************************************************************************)
(* The statements to_tokens emits, `let ptr = <op>;` each, and what each   *)
(* one does to the binding when the expansion runs.                        *)
(***************************************************************************)
Tok(op, name, n, ty) == [ty |-> ty, op |-> op, name |-> name, n |-> n]

T0(op) == Tok(op, "", 0, "")

\* the methods of `impl<M: Mutability, T> Pointer<M, T>` exist for a
\* wrapper over a sized pointee only.
HasMethods(p) == p.kind = "wrapper" /\ Sized(p.ty)

\* whether the host type checker accepts statement t with `ptr` bound to p
TypeOk(t, p) ==
    CASE t.op = "new_pointer" -> p.kind = "raw"
      [] t.op = "field" -> HasMethods(p) /\ HasField(p.ty, t.name)
      [] t.op = "tuple" -> HasMethods(p) /\ HasTuple(p.ty, t.n)
      [] t.op = "index" -> HasMethods(p) /\ CanIndex(p.ty)
      [] t.op = "cast" -> HasMethods(p) /\ Sized(t.ty)
      [] t.op \in {"read", "add", "sub", "byte_add", "byte_sub", "into_inner",
                   "into_const"}
            -> HasMethods(p)
      [] OTHER -> TRUE

\* the value bound to `ptr` by statement t
Eval(t, p) ==
    CASE t.op = "new_pointer" -> new_pointer(p)
      [] t.op = "field" -> copy_addr(p, addr_of_field(into_const(p), t.name))
      [] t.op = "tuple" -> copy_addr(p, addr_of_tuple(into_const(p), t.n))
      [] t.op = "read" -> read(p)
      [] t.op = "index" -> index(p, t.n)
      [] t.op = "add" -> add(p, t.n)
      [] t.op = "sub" -> sub(p, t.n)
      [] t.op = "byte_add" -> byte_add(p, t.n)
      [] t.op = "byte_sub" -> byte_sub(p, t.n)
      [] t.op = "cast" -> cast(p, t.ty)
      [] t.op = "into_inner" -> into_inner(p)
      [] t.op = "into_const" -> into_const(p)
      [] OTHER -> p

\* faulty variant: the field address is taken through a reference to the place
ReadsAtFields(t, p) ==
    IF t.op \in {"read", "field", "tuple"} THEN <<p.addr>> ELSE <<>>

\* the addresses statement t reads from memory
Reads(t, p) == IF t.op = "read" THEN <<p.addr>> ELSE <<>>

\* the caller's safety obligations: every computed address stays inside the
\* allocation, and a read is of aligned, initialized memory.
Safe(t, p) ==
    CASE t.op = "read" ->
            /\ p.addr % AlignOf(p.ty) = 0
            /\ \A i \in 0..(SizeOf(p.ty) - 1) : p.addr + i \in Initialized
      [] t.op \in {"field", "tuple", "index", "add", "sub", "byte_add", "byte_sub"}
            -> InBounds(Eval(t, p).addr)
      [] OTHER -> TRUE


(***************************************************************************)
(* Access nodes (enum ElementAccess).  A GroupAccess is the node Open, its *)
(* inner chain, and the node Close.  "Dot" is the FieldAccess whose field  *)
(* is None: a `.` with nothing after it in its chain.                      *)
(***************************************************************************)
Node(k, name, n, byte, neg, ty, arrow) ==
    [ty |-> ty, name |-> name, n |-> n, k |-> k, byte |-> byte,
     neg |-> neg, arrow |-> arrow]

Named(f) == Node("Field", f, 0, FALSE, FALSE, "", TRUE)
Tuple(i) == Node("Tuple", "", i, FALSE, FALSE, "", TRUE)
Deref == Node("Deref", "", 0, FALSE, FALSE, "", TRUE)
Dot == Node("Dot", "", 0, FALSE, FALSE, "", TRUE)
Index(i) == Node("Index", "", i, FALSE, FALSE, "", TRUE)
Offset(byte, neg, n) == Node("Offset", "", n, byte, neg, "", TRUE)
Cast(ty, arrow) == Node("Cast", "", 0, FALSE, FALSE, ty, arrow)
Open == Node("Open", "", 0, FALSE, FALSE, "", TRUE)
Close == Node("Close", "", 0, FALSE, FALSE, "", TRUE)

\* faulty variant: no access is final
is_final_never(n) == FALSE

\* faulty variant: a dereference is final as well
is_final_deref(n) == (n.k = "Cast" /\ ~n.arrow) \/ n.k = "Deref"

\* ElementAccess::is_final
is_final(n) == n.k = "Cast" /\ ~n.arrow

\* the method an offset node calls
OffsetName(n) ==
    CASE ~n.neg /\ ~n.byte -> "add"
      [] n.neg /\ ~n.byte -> "sub"
      [] ~n.neg /\ n.byte -> "byte_add"
      [] n.neg /\ n.byte -> "byte_sub"

(***************************************************************************)
(* The state of one invocation, as a record:                               *)
(*   depth   nesting of the running parse / to_tokens                      *)
(*   final   the last node parsed in the current chain is_final            *)
(*   halted  the current to_tokens has returned early (bare dot)           *)
(*   dirty   the dirty flag of the current to_tokens                       *)
(*   error   a compile_error! was emitted: the expansion never runs        *)
(*   tokens  the statements emitted so far                                 *)
(*   ptr     the value of the binding `ptr` after those statements         *)
(*   reads   the addresses read from memory so far                         *)
(*   status  "open": more input may follow; "done": expansion complete;    *)
(*           "parse_error": AccessList::parse failed; "type_error": the    *)
(*           host type checker rejects the expansion; "ub": the caller     *)
(*           broke a safety obligation, the outcome is unspecified         *)
(***************************************************************************)
Machine(depth, final, halted, dirty, error, tokens, ptr, reads, status) ==
    [depth |-> depth, final |-> final, halted |-> halted, dirty |-> dirty,
     error |-> error, tokens |-> tokens, ptr |-> ptr, reads |-> reads,
     status |-> status]

\* element_ptr(): `let ptr = new_pointer(#ptr);` then the lowered chain
Start(b) ==
    Machine(0, FALSE, FALSE, FALSE, FALSE, <<T0("new_pointer")>>,
            new_pointer(Held("raw", b.m, b.ty, b.addr, <<>>)), <<>>, "open")

\* AccessList::parse returning Err: there is no expansion
ParseError ==
    Machine(0, FALSE, FALSE, FALSE, FALSE, <<>>, Undef, <<>>, "parse_error")

\* quote_into!: append statement t; when the expansion is one that runs,
\* t acts on the binding.
Emit(m, t) ==
    LET m1 == [m EXCEPT !.tokens = Append(@, t)]
    IN  IF m.error \/ m.status # "open" THEN m1
        ELSE IF ~TypeOk(t, m.ptr)
             THEN [m1 EXCEPT !.status = "type_error", !.ptr = Undef,
                             !.reads = <<>>]
        ELSE IF ~Safe(t, m.ptr)
             THEN [m1 EXCEPT !.status = "ub", !.ptr = Undef]
        ELSE [m1 EXCEPT !.ptr = Eval(t, m.ptr),
                        !.reads = @ \o Reads(t, m.ptr)]

\* faulty variant: the re-wrap is over the place the value was read from, typed as
\* a pointer to that value
RewrapAddressOf(m) ==
    IF m.dirty
    THEN LET e == Emit(m, T0("new_pointer"))
         IN  IF e.status = "open" /\ ~e.error /\ m.reads # <<>>
                /\ m.ptr = Load("PtrMutRec", m.reads[Len(m.reads)])
             THEN [e EXCEPT !.dirty = FALSE,
                            !.ptr = Held("wrapper", m.ptr.m, "PtrMutRec",
                                         m.reads[Len(m.reads)], <<>>)]
             ELSE [e EXCEPT !.dirty = FALSE]
    ELSE m

\* to_tokens, head of the loop body: re-wrap when dirty
Rewrap(m) ==
    IF m.dirty
    THEN [Emit(m, T0("new_pointer")) EXCEPT !.dirty = FALSE]
    ELSE m

\* to_tokens, the bare dot: best-effort statement, the error, and return
BareDot(m) ==
    LET e == Emit(Emit(m, T0("dangling_dot")), T0("compile_error"))
    IN  [e EXCEPT !.error = TRUE, !.ptr = Undef, !.reads = <<>>,
                  !.halted = (m.depth > 0),
                  !.status = IF m.depth = 0 /\ @ = "open" THEN "done" ELSE @]

\* faulty variant: the dirty flag is not consulted, `ptr` is always the result
FinalExprPtr(m) == Emit(m, T0("ptr"))

\* to_tokens, after the loop: the result expression
FinalExpr(m) ==
    IF m.dirty THEN Emit(m, T0("ptr")) ELSE Emit(m, T0("into_inner"))

\* faulty variant: the block of a group hands its pointer back as *const T
GroupEndConst(m) ==
    LET inner == IF m.halted \/ m.dirty THEN m ELSE Emit(m, T0("into_const"))
    IN  [Emit(inner, T0("block_close")) EXCEPT
            !.dirty = TRUE, !.depth = @ - 1, !.final = FALSE,
            !.halted = FALSE]

\* faulty variant: the outer flag is set only when the group ended dirty
GroupEndKeepsFlag(m) ==
    LET inner == IF m.halted THEN m ELSE FinalExpr(m)
    IN  [Emit(inner, T0("block_close")) EXCEPT
            !.depth = @ - 1, !.final = FALSE, !.halted = FALSE]

\* the end of a group: the inner to_tokens finishes (unless it returned
\* early), the outer one closes the block and sets its dirty flag.
GroupEnd(m) ==
    LET inner == IF m.halted THEN m ELSE FinalExpr(m)
    IN  [Emit(inner, T0("block_close")) EXCEPT
            !.dirty = TRUE, !.depth = @ - 1, !.final = FALSE,
            !.halted = FALSE]

\* faulty variant: a dereference leaves the dirty flag clear
MatchDerefClean(m, n) ==
    CASE n.k = "Field" -> Emit(m, Tok("field", n.name, 0, ""))
      [] n.k = "Tuple" -> Emit(m, Tok("tuple", "", n.n, ""))
      [] n.k = "Deref" -> Emit(m, T0("read"))
      [] n.k = "Dot" -> BareDot(m)
      [] n.k = "Index" -> Emit(m, Tok("index", "", n.n, ""))
      [] n.k = "Offset" -> Emit(m, Tok(OffsetName(n), "", n.n, ""))
      [] n.k = "Cast" -> Emit(m, Tok("cast", "", 0, n.ty))
      [] n.k = "Open" ->
            [Emit(m, T0("block_open")) EXCEPT !.depth = @ + 1]

\* to_tokens, the match on the access
Match(m, n) ==
    CASE n.k = "Field" -> Emit(m, Tok("field", n.name, 0, ""))
      [] n.k = "Tuple" -> Emit(m, Tok("tuple", "", n.n, ""))
      [] n.k = "Deref" -> [Emit(m, T0("read")) EXCEPT !.dirty = TRUE]
      [] n.k = "Dot" -> BareDot(m)
      [] n.k = "Index" -> Emit(m, Tok("index", "", n.n, ""))
      [] n.k = "Offset" -> Emit(m, Tok(OffsetName(n), "", n.n, ""))
      [] n.k = "Cast" -> Emit(m, Tok("cast", "", 0, n.ty))
      [] n.k = "Open" ->
            [Emit(m, T0("block_open")) EXCEPT !.depth = @ + 1]

\* one more access of the input: parsed (AccessList::parse), then lowered
\* (one iteration of the loop of to_tokens) and run.
Step(m, n) ==
    IF n.k = "Close"
    THEN IF m.depth = 0 THEN ParseError ELSE GroupEnd(m)
    ELSE IF m.final \/ m.halted THEN ParseError
    ELSE [Match(Rewrap(m), n) EXCEPT !.final = is_final(n)]

\* the end of the input at the top level
Finish(m) ==
    LET f == FinalExpr(m)
    IN  [f EXCEPT !.status = IF @ = "open" THEN "done" ELSE @]


(***************************************************************************)
(* The state machine.                                                      *)
(***************************************************************************)
VARIABLES base, chain, depth, final, halted, dirty, error, tokens, ptr,
          reads, status

vars == <<base, chain, depth, final, halted, dirty, error, tokens, ptr,
          reads, status>>

\* the initial pointer expression: *const T, *mut T or NonNull<T>, to the
\* first record, to its field `d`, to the second record's `items`, or to
\* that as a slice.
Bases ==
    {[m |-> m, ty |-> x[1], addr |-> x[2]] :
        m \in Mutabilities, x \in {<<"Rec", 8>>, <<"PtrMutRec", 8>>, <<"Arr", 20>>,
                          <<"Slice", 20>>}}

CastTypes == {"Pair"}

Cur == Machine(depth, final, halted, dirty, error, tokens, ptr, reads, status)

Become(r) ==
    /\ depth' = r.depth
    /\ final' = r.final
    /\ halted' = r.halted
    /\ dirty' = r.dirty
    /\ error' = r.error
    /\ tokens' = r.tokens
    /\ ptr' = r.ptr
    /\ reads' = r.reads
    /\ status' = r.status

NodeCount(c) == Cardinality({i \in 1..Len(c) : c[i].k # "Close"})

Init ==
    /\ base \in Bases
    /\ chain = <<>>
    /\ depth = 0
    /\ final = FALSE
    /\ halted = FALSE
    /\ dirty = FALSE
    /\ error = FALSE
    /\ tokens = Start(base).tokens
    /\ ptr = Start(base).ptr
    /\ reads = <<>>
    /\ status = "open"

\* the input holds one more access (a bare dot ends its input)
MoreInput ==
    /\ status = "open"
    /\ NodeCount(chain) < MaxNodes
    /\ ~halted

\* the next node of the input is n: parsed, lowered and run
Access(n) ==
    /\ chain' = Append(chain, n)
    /\ Become(Step(Cur, n))
    /\ UNCHANGED base

AccessField ==
    /\ MoreInput
    /\ \E f \in {"d", "items"} : Access(Named(f))

AccessTuple ==
    /\ MoreInput
    /\ \E i \in 1..MaxIndex : Access(Tuple(i))

AccessDeref ==
    /\ MoreInput
    /\ Access(Deref)

AccessBareDot ==
    /\ MoreInput
    /\ Access(Dot)

AccessIndex ==
    /\ MoreInput
    /\ \E i \in 1..MaxIndex : Access(Index(i))

AccessOffset ==
    /\ MoreInput
    /\ \E byte \in BOOLEAN, neg \in BOOLEAN, n \in 1..MaxCount :
          Access(Offset(byte, neg, n))

AccessCast ==
    /\ MoreInput
    /\ \E ty \in CastTypes, arrow \in BOOLEAN : Access(Cast(ty, arrow))

AccessGroup ==
    /\ MoreInput
    /\ depth < MaxDepth
    /\ Access(Open)

GroupClose ==
    /\ status = "open"
    /\ depth > 0
    /\ Access(Close)

EndOfInput ==
    /\ status = "open"
    /\ depth = 0
    /\ Become(Finish(Cur))
    /\ UNCHANGED <<base, chain>>

Next ==
    \/ AccessField
    \/ AccessTuple
    \/ AccessDeref
    \/ AccessBareDot
    \/ AccessIndex
    \/ AccessOffset
    \/ AccessCast
    \/ AccessGroup
    \/ GroupClose
    \/ EndOfInput

Spec == Init /\ [][Next]_vars


(***************************************************************************)
(* The whole expansion of `element_ptr!(b => c)` and its evaluation, as a  *)
(* function of the initial pointer b and the chain c.                      *)
(***************************************************************************)
RECURSIVE Lowered(_, _)
Lowered(m, c) ==
    IF c = <<>> \/ m.status # "open"
    THEN m
    ELSE Lowered(Step(m, Head(c)), Tail(c))

Expand(b, c) ==
    LET m == Lowered(Start(b), c)
    IN  IF m.status = "open" THEN Finish(m) ELSE m

\* the invocation compiled and ran within the caller's obligations
Accepted(m) == m.status = "done" /\ ~m.error

\* the state reached so far belongs to such an invocation
Running == status \in {"open", "done"} /\ ~error

(***************************************************************************)
(* Vocabulary of the properties.                                           *)
(***************************************************************************)
Front(c) == SubSeq(c, 1, Len(c) - 1)
Last(c) == c[Len(c)]

DerefPositions(c) == {i \in 1..Len(c) : c[i].k = "Deref"}

\* the i-th smallest element of a set of positions
RECURSIVE Nth(_, _)
Nth(S, i) ==
    LET lo == CHOOSE x \in S : \A y \in S : x <= y
    IN  IF i = 1 THEN lo ELSE Nth(S \ {lo}, i - 1)

\* the chain with its trailing Close nodes removed
RECURSIVE StripClose(_)
StripClose(c) ==
    IF c # <<>> /\ Last(c).k = "Close" THEN StripClose(Front(c)) ELSE c

\* the chain ends in a dereference, through any number of groups
EndsInDeref(c) == StripClose(c) # <<>> /\ Last(StripClose(c)).k = "Deref"

\* opens minus closes among c[i..j]
Balance(c, i, j) ==
    Cardinality({k \in i..j : c[k].k = "Open"})
        - Cardinality({k \in i..j : c[k].k = "Close"})

\* the groups of c: <<i, j>> with c[i] an Open and c[j] its Close
Groups(c) ==
    {g \in (1..Len(c)) \X (1..Len(c)) :
        /\ g[1] < g[2]
        /\ c[g[1]].k = "Open"
        /\ c[g[2]].k = "Close"
        /\ Balance(c, g[1], g[2]) = 0
        /\ \A k \in g[1]..(g[2] - 1) : Balance(c, g[1], k) > 0}

Inner(c, g) == SubSeq(c, g[1] + 1, g[2] - 1)

\* the accesses c, written to be followed by more accesses: a final cast
\* takes its `=>`
Continued(c) ==
    IF c # <<>> /\ is_final(Last(c))
    THEN [c EXCEPT ![Len(c)].arrow = TRUE]
    ELSE c

\* c with the parentheses of group g removed
Ungroup(c, g) ==
    LET rest == SubSeq(c, g[2] + 1, Len(c))
        inner == IF rest # <<>> /\ Head(rest).k # "Close"
                 THEN Continued(Inner(c, g))
                 ELSE Inner(c, g)
    IN  SubSeq(c, 1, g[1] - 1) \o inner \o rest

\* the marker and pointee type the host type system assigns after chain c
\* from marker m and pointee t, read off the declarations of the types
RECURSIVE StaticAfter(_, _)
StaticAfter(mt, c) ==
    IF c = <<>> THEN mt
    ELSE LET n == Head(c)
             t == mt.ty
             next ==
                CASE n.k = "Field" -> [mt EXCEPT !.ty = FieldTy(t, n.name)]
                  [] n.k = "Tuple" -> [mt EXCEPT !.ty = TupleTy(t, n.n)]
                  [] n.k = "Index" -> [mt EXCEPT !.ty = ElemOf(t)]
                  [] n.k = "Cast" -> [mt EXCEPT !.ty = n.ty]
                  [] n.k = "Deref" /\ IsPtrTy(t) -> [m |-> PtrM(t), ty |-> PtrT(t)]
                  [] OTHER -> mt
         IN  StaticAfter(next, Tail(c))

BaseStatic == [m |-> base.m, ty |-> base.ty]


(***************************************************************************)
(* C1.  Memory is read only at dereference nodes: at every point of every  *)
(* invocation that runs, the reads performed so far are exactly one per    *)
(* `.*` node of the chain so far, in order, each at the address of the     *)
(* wrapper that node was applied to.  Field, tuple-field, index, offset,   *)
(* cast and group steps read nothing.                                      *)
(***************************************************************************)
HeldAt(i) == Rewrap(Lowered(Start(base), SubSeq(chain, 1, i - 1))).ptr

C1_ReadsOnlyAtDeref ==
    Running =>
        /\ Len(reads) = Cardinality(DerefPositions(chain))
        /\ \A i \in 1..Len(reads) :
              reads[i] = HeldAt(Nth(DerefPositions(chain), i)).addr

\* `.*.items[1]` from a pointer to the first record's `d` has run and has
\* read only the pointer stored in `d`
C1_Witness ==
    /\ Accepted(Cur)
    /\ base.ty = "PtrMutRec"
    /\ chain = <<Deref, Named("items"), Index(1)>>
    /\ reads = <<8>>
    /\ ptr.addr = 22

(***************************************************************************)
(* C2.  A chain with no dereference at any depth yields a raw pointer of   *)
(* the flavor of the initial pointer, typed at the final pointee type.     *)
(***************************************************************************)
C2_FlavorPreserved ==
    (Accepted(Cur) /\ DerefPositions(chain) = {}) =>
        /\ ptr.kind = "raw"
        /\ ptr.m = base.m
        /\ ptr.ty = StaticAfter(BaseStatic, chain).ty

C2_Witness ==
    /\ Accepted(Cur)
    /\ base.m = "NonNull"
    /\ chain = <<Open, Index(1), Close, Tuple(1)>>
    /\ ptr = Held("raw", "NonNull", "u8", 23, <<>>)

(***************************************************************************)
(* C3.  As claimed: the marker of the wrapper held after every step is the *)
(* marker fixed from the initial pointer.                                  *)
(***************************************************************************)
C3_MarkerNeverChanges ==
    (Running /\ ptr.kind = "wrapper") => ptr.m = base.m

(***************************************************************************)
(* C3, amended.  No access other than a dereference changes the marker:    *)
(* the pointer held has the initial marker until the first `.*`, and after *)
(* a `.*` the marker of the pointer that was read there, which the re-wrap *)
(* takes over.                                                             *)
(***************************************************************************)
C3_MarkerFollowsReadPointer ==
    (Running /\ ptr.kind \in {"wrapper", "raw"}) =>
        ptr.m = StaticAfter(BaseStatic, chain).m

\* a read-only initial pointer, and a mutable wrapper after `.d.*.items`
C3_Witness ==
    /\ Running
    /\ base.m = "Const"
    /\ chain = <<Named("d"), Deref, Named("items")>>
    /\ ptr = Held("wrapper", "Mut", "Arr", 20, <<>>)

(***************************************************************************)
(* C4.  The expansion of a chain ends in exactly one result expression:    *)
(* `ptr` when the dirty flag is set after the last node, and               *)
(* `ptr.into_inner()` when it is not.  It evaluates to a raw pointer when  *)
(* the chain does not end in a dereference, and to the value read there    *)
(* when it does.  (A chain is accepted when its expansion compiles; one    *)
(* that ends in a bare dot is a grammar failure.)                          *)
(***************************************************************************)
\* the result expressions among the statements, outside every block
ResultExprs(toks) ==
    {i \in 1..Len(toks) :
        /\ toks[i].op \in {"ptr", "into_inner"}
        /\ Cardinality({j \in 1..i : toks[j].op = "block_open"})
              = Cardinality({j \in 1..i : toks[j].op = "block_close"})}

\* the value read by the dereference a chain ends in
LastDeref(c) == Len(StripClose(c))

ValueRead(c) ==
    Load(StaticAfter(BaseStatic, SubSeq(c, 1, LastDeref(c) - 1)).ty,
         reads[Len(reads)])

C4_ResultExpression ==
    /\ (status = "done" /\ (chain = <<>> \/ Last(chain).k # "Dot")) =>
          /\ Last(tokens).op = (IF dirty THEN "ptr" ELSE "into_inner")
          /\ ResultExprs(tokens) = {Len(tokens)}
    /\ Accepted(Cur) =>
          /\ ~EndsInDeref(chain) => ptr.kind = "raw"
          /\ EndsInDeref(chain) => ptr = ValueRead(chain)

\* the empty chain, a chain ending in a group, and one ending in `.*` whose
\* value is no pointer are all covered; this is the last
C4_Witness ==
    /\ Accepted(Cur)
    /\ chain = <<Deref, Named("items"), Deref>>
    /\ Last(tokens).op = "ptr"
    /\ ptr.kind = "value"
    /\ ptr.val = <<41, 42, 43, 44>>

(***************************************************************************)
(* C5.  The result of `P .*` is the value stored in memory at the address  *)
(* that the chain P alone computes from the same initial pointer.          *)
(***************************************************************************)
C5_DerefReadsPrefixAddress ==
    (Accepted(Cur) /\ chain # <<>> /\ Last(chain).k = "Deref") =>
        LET r == Expand(base, Front(chain))
        IN  /\ Accepted(r)
            /\ r.ptr.kind = "raw"
            /\ ptr = Load(r.ptr.ty, r.ptr.addr)

\* P = `.d.*` yields the pointer to the second record; `P .*` is that record
C5_Witness ==
    /\ Accepted(Cur)
    /\ chain = <<Named("d"), Deref, Deref>>
    /\ reads = <<8, 16>>
    /\ ptr = Held("value", "none", "Rec", 0, <<8, 0, 0, 0, 41, 42, 43, 44>>)


(***************************************************************************)
(* C6.  Grouping is a no-op: removing the parentheses of any group that    *)
(* does not end in a dereference, at any depth, leaves the address, the    *)
(* pointee type and the flavor of the result unchanged.  (A cast that ends *)
(* the group without `=>` is written with it once accesses follow it.)     *)
(***************************************************************************)
C6_GroupingIsNoOp ==
    Accepted(Cur) =>
        \A g \in Groups(chain) :
            ~EndsInDeref(Inner(chain, g)) =>
                LET r == Expand(base, Ungroup(chain, g))
                IN  Accepted(r) /\ r.ptr = ptr /\ r.reads = reads

\* `([1]) .1` against `[1] .1` on the second record's `items`
C6_Witness ==
    /\ Accepted(Cur)
    /\ chain = <<Open, Index(1), Close, Tuple(1)>>
    /\ base.m = "Mut"
    /\ ptr = Held("raw", "Mut", "u8", 23, <<>>)
    /\ Expand(base, <<Index(1), Tuple(1)>>).ptr = ptr

(***************************************************************************)
(* C7.  As claimed: after a group ending in a dereference, the chain       *)
(* continues from the address of the value that was read, so that          *)
(* `base => (A .* ) C` is C applied to a pointer to that value.            *)
(***************************************************************************)
\* the groups at the top level that end in a dereference and are followed
\* by more accesses
DerefGroups(c) ==
    {g \in Groups(c) :
        /\ Balance(c, 1, g[1] - 1) = 0
        /\ g[2] < Len(c)
        /\ c[g[2] - 1].k = "Deref"}

Rest(c, g) == SubSeq(c, g[2] + 1, Len(c))

\* the invocation up to and including the group
UpTo(c, g) == Expand(base, SubSeq(c, 1, g[2]))

\* the pointer types by marker and pointee
PtrTyOf(p) == CHOOSE t \in Types : IsPtrTy(t) /\ PtrM(t) = p.m /\ PtrT(t) = p.ty

C7_RewrapOverAddressOfValue ==
    Accepted(Cur) =>
        \A g \in DerefGroups(chain) :
            LET v == UpTo(chain, g)
                at == [m |-> base.m, ty |-> PtrTyOf(v.ptr),
                       addr |-> v.reads[Len(v.reads)]]
                r == Expand(at, Rest(chain, g))
            IN  Accepted(r) /\ r.ptr.addr = ptr.addr /\ r.ptr.ty = ptr.ty

(***************************************************************************)
(* C7, amended.  The re-wrap is over the value that was read, which is     *)
(* itself a pointer: `base => (A .* ) C` is C applied to the pointer read *)
(* at the end of A, with that pointer's address, pointee type and flavor.  *)
(***************************************************************************)
C7_RewrapOverValueRead ==
    Accepted(Cur) =>
        \A g \in DerefGroups(chain) :
            LET v == UpTo(chain, g)
                r == Expand([m |-> v.ptr.m, ty |-> v.ptr.ty, addr |-> v.ptr.addr],
                            Rest(chain, g))
            IN  /\ Accepted(v)
                /\ v.ptr = Load(PtrTyOf(v.ptr), v.reads[Len(v.reads)])
                /\ Accepted(r)
                /\ r.ptr = ptr

\* `( .* ) .items` from a read-only pointer to the first record's `d`: the
\* second record's `items`, through a mutable pointer
C7_Witness ==
    /\ Accepted(Cur)
    /\ base.m = "Const"
    /\ chain = <<Open, Deref, Close, Named("items")>>
    /\ reads = <<8>>
    /\ ptr = Held("raw", "Mut", "Arr", 20, <<>>)

(***************************************************************************)
(* C8.  As claimed: for every pointer to a fixed-length or unbounded       *)
(* sequence with element type E, `base => [i]` is the pointer to E at      *)
(* base + i * size of E, of the flavor of base.                            *)
(***************************************************************************)
C8_IndexOnEverySequence ==
    (/\ CanIndex(base.ty)
     /\ Len(chain) = 1
     /\ chain[1].k = "Index"
     /\ InBounds(base.addr + chain[1].n * SizeOf(ElemOf(base.ty)))) =>
        \/ status = "open"
        \/ /\ Accepted(Cur)
           /\ ptr = Held("raw", base.m, ElemOf(base.ty),
                         base.addr + chain[1].n * SizeOf(ElemOf(base.ty)), <<>>)

(***************************************************************************)
(* C9.  Offset round trip: `+N` followed by `-N`, and `u8+N` followed by   *)
(* `u8-N`, give the pointer (address, pointee type, flavor) that the chain *)
(* before them gives; applied to the initial pointer, that pointer.        *)
(***************************************************************************)
RoundTrip(c) ==
    /\ Len(c) >= 2
    /\ c[Len(c) - 1].k = "Offset" /\ ~c[Len(c) - 1].neg
    /\ c[Len(c)] = [c[Len(c) - 1] EXCEPT !.neg = TRUE]

C9_OffsetRoundTrip ==
    (Accepted(Cur) /\ RoundTrip(chain)) =>
        /\ ptr = Expand(base, SubSeq(chain, 1, Len(chain) - 2)).ptr
        /\ Len(chain) = 2 => ptr = Held("raw", base.m, base.ty, base.addr, <<>>)

C9_Witness ==
    /\ Accepted(Cur)
    /\ chain = <<Offset(FALSE, FALSE, 2), Offset(FALSE, TRUE, 2)>>
    /\ base.ty = "Rec"
    /\ ptr.addr = 8

(***************************************************************************)
(* C10.  An offset without `u8` moves the address by count * size of the   *)
(* pointee, one with `u8` by count bytes, forward for `+` and backward for *)
(* `-`; neither changes pointee type or flavor.  For a pointee of size S,  *)
(* `u8+S` gives the pointer that `+1` gives.                               *)
(***************************************************************************)
Moved(n, t) ==
    (IF n.neg THEN -1 ELSE 1) * n.n * (IF n.byte THEN 1 ELSE SizeOf(t))

C10_ByteAndElementUnits ==
    (Accepted(Cur) /\ chain # <<>> /\ Last(chain).k = "Offset") =>
        LET p == Expand(base, Front(chain)).ptr
            S == SizeOf(p.ty)
        IN  /\ ptr = [p EXCEPT !.addr = @ + Moved(Last(chain), p.ty)]
            /\ (Last(chain) = Offset(FALSE, FALSE, 1) /\ S \in 1..MaxCount) =>
                  Expand(base, Front(chain) \o <<Offset(TRUE, FALSE, S)>>).ptr = ptr

\* on a pointer to a Pair (2 bytes), `+1` and `u8+2` both move by 2
C10_Witness ==
    /\ Accepted(Cur)
    /\ base = [m |-> "Mut", ty |-> "Arr", addr |-> 20]
    /\ chain = <<Index(1), Offset(FALSE, FALSE, 1)>>
    /\ ptr = Held("raw", "Mut", "Pair", 24, <<>>)
    /\ Expand(base, <<Index(1), Offset(TRUE, FALSE, 2)>>).ptr = ptr

(***************************************************************************)
(* C11.  A cast changes only the pointee type: the wrapper after `as T`    *)
(* has the address and the marker of the wrapper the cast was applied to   *)
(* and the pointee type T.  Writing the cast twice gives the result of     *)
(* writing it once, and where the cast is the last node of its chain the   *)
(* form with `=>` and the form without it give the same result.            *)
(***************************************************************************)
CastPositions(c) == {i \in 1..Len(c) : c[i].k = "Cast"}

\* the value of `ptr` once the first i nodes of the chain have run
HeldAfter(i) == Lowered(Start(base), SubSeq(chain, 1, i)).ptr

\* chain c with the cast at position i written twice
CastTwice(c, i) ==
    SubSeq(c, 1, i - 1) \o <<Cast(c[i].ty, TRUE)>> \o SubSeq(c, i, Len(c))

\* the node at position i is the last of its own chain
LastOfChain(c, i) == i = Len(c) \/ c[i + 1].k = "Close"

\* chain c with the `=>` of the cast at position i added or removed
CastOtherForm(c, i) == [c EXCEPT ![i].arrow = ~@]

\* the invocation r is accepted with the result and the reads of this one
SameResult(r) == Accepted(r) /\ r.ptr = ptr /\ r.reads = reads

C11_CastChangesOnlyType ==
    /\ Running =>
          \A i \in CastPositions(chain) :
              HeldAfter(i) = Held("wrapper", HeldAt(i).m, chain[i].ty,
                                  HeldAt(i).addr, <<>>)
    /\ Accepted(Cur) =>
          \A i \in CastPositions(chain) :
              /\ SameResult(Expand(base, CastTwice(chain, i)))
              /\ LastOfChain(chain, i) =>
                      SameResult(Expand(base, CastOtherForm(chain, i)))

\* a pointer to the first record cast to Pair twice, the second time
\* without `=>`: the same address and flavor; one cast gives the same
C11_Witness ==
    /\ Accepted(Cur)
    /\ base = [m |-> "NonNull", ty |-> "Rec", addr |-> 8]
    /\ chain = <<Cast("Pair", TRUE), Cast("Pair", FALSE)>>
    /\ ptr = Held("raw", "NonNull", "Pair", 8, <<>>)
    /\ Expand(base, <<Cast("Pair", TRUE)>>).ptr = ptr

(***************************************************************************)
(* C12.  A node is terminal exactly when it is a cast without `=>`.        *)
(* Parsing fails, and nothing is expanded, exactly when a terminal node is *)
(* followed by another node in its own chain; so in every chain that       *)
(* parses, at every depth, a terminal node is the last node of its chain.  *)
(* The chain of a group is separate from the enclosing chain: a cast       *)
(* without `=>` may end a group that more accesses follow.                 *)
(***************************************************************************)
Terminal(n) == n.k = "Cast" /\ ~n.arrow

\* the terminal nodes of c that another node follows in their own chain
TerminalFollowed(c) ==
    {i \in 1..(Len(c) - 1) : Terminal(c[i]) /\ c[i + 1].k # "Close"}

C12_TerminalCastEndsChain ==
    /\ \A i \in 1..Len(chain) : is_final(chain[i]) <=> Terminal(chain[i])
    /\ status = "parse_error" <=> TerminalFollowed(chain) # {}
    /\ status = "parse_error" => tokens = <<>> /\ ptr = Undef
    /\ status = "open" => (final <=> (chain # <<>> /\ Terminal(Last(chain))))

\* `(as Pair) .1` on a pointer to the first record: the cast without `=>`
\* ends the group and the tuple field follows the group
C12_Witness ==
    /\ Accepted(Cur)
    /\ base.ty = "Rec"
    /\ chain = <<Open, Cast("Pair", FALSE), Close, Tuple(1)>>
    /\ ptr.ty = "u8"
    /\ ptr.addr = 9

(***************************************************************************)
(* C13.  As claimed: a dereference is a terminal access, so no accepted    *)
(* chain has a `.*` that another access follows in the same chain.         *)
(***************************************************************************)
\* the dereferences of c that another node follows in their own chain
DerefFollowed(c) ==
    {i \in DerefPositions(c) : i < Len(c) /\ c[i + 1].k # "Close"}

C13_DerefIsTerminal == Accepted(Cur) => DerefFollowed(chain) = {}

(***************************************************************************)
(* C13, as the parser and the lowering have it: a dereference is not a     *)
(* terminal access.  The parser accepts a `.*` followed by more accesses   *)
(* in the same chain; the re-wrap in front of the next access then needs   *)
(* the value read to be a pointer.  When it is, the chain continues from   *)
(* that pointer; when it is not, the expansion does not type-check.  Only  *)
(* a `.*` that reads a value that is no pointer has to be the last access  *)
(* (of the invocation, or of a group that nothing follows).                *)
(***************************************************************************)
\* the invocation after the first i nodes of the chain
After(i) == Lowered(Start(base), SubSeq(chain, 1, i))

C13_DerefMayContinue ==
    \A i \in DerefFollowed(chain) :
        /\ ~is_final(chain[i])
        /\ (After(i).status = "open" /\ ~After(i).final) =>
              After(i + 1).status # "parse_error"
        /\ (After(i).status = "open" /\ After(i).ptr.kind = "raw") =>
              HeldAt(i + 1) = new_pointer(After(i).ptr)
        /\ (After(i).status = "open" /\ After(i).ptr.kind = "value") =>
              After(i + 1).status = "type_error"

\* `.d .* .items` from the first record is accepted and yields the second
\* record's `items`
C13_Witness ==
    /\ Accepted(Cur)
    /\ base.ty = "Rec"
    /\ chain = <<Named("d"), Deref, Named("items")>>
    /\ DerefFollowed(chain) = {2}
    /\ reads = <<8>>
    /\ ptr.kind = "raw"
    /\ ptr.addr = 20

(***************************************************************************)
(* C14.  As claimed: the re-wrap is executed before a node only when the   *)
(* previous node of the chain is a dereference or a group ending in a      *)
(* dereference.                                                            *)
(***************************************************************************)
\* the nodes of c that lower to statements of their own
Accesses(c) == {i \in 1..Len(c) : c[i].k # "Close"}

\* the first statement emitted for node i, which follows the statements
\* of the nodes before it, is the re-wrap
RewrapBefore(i) == tokens[Len(After(i - 1).tokens) + 1].op = "new_pointer"

\* the group closed at position j of c
GroupClosedAt(c, j) == CHOOSE g \in Groups(c) : g[2] = j

C14_RewrapOnlyAfterDeref ==
    Running =>
        \A i \in Accesses(chain) :
            RewrapBefore(i) =>
                /\ i > 1
                /\ \/ chain[i - 1].k = "Deref"
                   \/ /\ chain[i - 1].k = "Close"
                      /\ EndsInDeref(Inner(chain, GroupClosedAt(chain, i - 1)))

(***************************************************************************)
(* C14, as the lowering has it: the re-wrap is executed before a node      *)
(* exactly when the previous node of the chain is a dereference or a       *)
(* group, whatever the group ends in.  It is never executed before the     *)
(* first node of a chain, nor after a field, tuple-field, index, offset or *)
(* cast node.                                                              *)
(***************************************************************************)
\* the access consumed last.  Every prefix of the chain is the chain of an
\* earlier state of the same invocation, so what holds of the newest access
\* in every state holds of every access.
Newest(c) == Accesses(c) \cap {Len(c)}

C14_RewrapAfterDerefOrGroup ==
    status # "parse_error" =>
        \A i \in Newest(chain) :
            RewrapBefore(i) <=> (i > 1 /\ chain[i - 1].k \in {"Deref", "Close"})

\* `([1]) .1` on the second record's `items`: the group does not end in a
\* dereference and the re-wrap is executed before `.1`
C14_Witness ==
    /\ Accepted(Cur)
    /\ base = [m |-> "Const", ty |-> "Arr", addr |-> 20]
    /\ chain = <<Open, Index(1), Close, Tuple(1)>>
    /\ RewrapBefore(4)
    /\ ~RewrapBefore(2)
    /\ ptr.addr = 23

(***************************************************************************)
(* C15.  As claimed: once the statement and the compile error of a bare    *)
(* dot are emitted, at the top level or inside a group, nothing more is    *)
(* emitted: no navigation step, no re-wrap and no result expression        *)
(* follows the compile error anywhere in the expansion.                    *)
(***************************************************************************)
\* the statements that are navigation steps, re-wraps or result expressions
Emitting ==
    {"field", "tuple", "read", "dangling_dot", "index", "add", "sub",
     "byte_add", "byte_sub", "cast", "new_pointer", "ptr", "into_inner"}

\* the statements emitted after a compile error
AfterCompileError(toks) ==
    {j \in 1..Len(toks) :
        \E i \in 1..(j - 1) : toks[i].op = "compile_error"}

C15_BareDotStopsEmission ==
    status # "parse_error" =>
        \A j \in AfterCompileError(tokens) : tokens[j].op \notin Emitting

(***************************************************************************)
(* C16.  While a chain without a bare dot is lowered, the dirty flag is    *)
(* set exactly when `ptr` holds a value that is no wrapper (a value read   *)
(* by `.*`, or the result of the block of a group) and clear exactly when  *)
(* it holds a wrapper.  The flag is clear when the operation of a node is  *)
(* emitted, so every field, tuple-field, index, offset, cast and           *)
(* dereference, and the first operation inside every group, is applied to  *)
(* a wrapper.  The result of the expansion is never a wrapper.             *)
(***************************************************************************)
\* the invocation at the point where the operation of node i is emitted
AtNode(i) == Rewrap(After(i - 1))

C16_DirtyIffNotWrapper ==
    /\ (status = "open" /\ ~error) =>
          /\ dirty <=> ptr.kind \in {"raw", "value"}
          /\ ~dirty <=> ptr.kind = "wrapper"
    /\ Running =>
          \A i \in Newest(chain) :
              LET m == AtNode(i)
              IN  ~m.dirty /\ m.ptr.kind = "wrapper"
    /\ Accepted(Cur) => ptr.kind \in {"raw", "value"}

\* `( .* ) .items` while it is lowered: dirty with a raw pointer after the
\* group, clear with a wrapper at `.items` and after it
C16_Witness ==
    /\ status = "open"
    /\ ~error
    /\ chain = <<Open, Deref, Close, Named("items")>>
    /\ After(2).dirty /\ After(2).ptr.kind = "raw"
    /\ After(3).dirty /\ After(3).ptr.kind = "raw"
    /\ AtNode(4).ptr.kind = "wrapper"
    /\ ~dirty
    /\ ptr = Held("wrapper", "Mut", "Arr", 20, <<>>)

====
